---- MODULE Spec2Model ----
(***************************************************************************)
(* Model of training/train_trend_model.py: a script that loads (X, y) from *)
(* training_data.npz, builds a fixed 1D-CNN, compiles it, fits it for a    *)
(* fixed number of epochs, creates ../public/models/trend-cnn and saves    *)
(* the model to trend_model.keras.                                         *)
(*                                                                         *)
(* One action per statement of the script.  The statements run in the     *)
(* order of the sequence Script; an uncaught exception ends the process.   *)
(* The content of training_data.npz is an input: it is drawn when the      *)
(* script reads it.  The process can be started again after it has ended   *)
(* (Exit), with the file system left as the previous run left it.          *)
(***************************************************************************)
EXTENDS Integers, Sequences, FiniteSets, TLC

\* ------------------------------------------------------------------ bounds
\* Largest number of samples (first dimension of X, length of y) drawn.
MaxN == 2
\* Largest batch dimension the shape propagation is evaluated for.
MaxBatch == 3

\* ------------------------------------------------------- program constants
WindowSize == 6
Features == 8
NumClasses == 3
Epochs == 20
BatchSize == 32
\* validation_split = 0.2, kept as the fraction ValSplitNum / ValSplitDen.
ValSplitNum == 1
ValSplitDen == 5

input_shape == <<WindowSize, Features>>

data_file == "training_data.npz"
model_dir == "../public/models/trend-cnn"
\* The export target inside model_dir (the export itself is commented out).
tfjs_file == "../public/models/trend-cnn/model.json"

\* The path given to model.save.
SaveInModelDir == tfjs_file
save_path == "trend_model.keras"

\* os.makedirs(model_dir, exist_ok=True)
ExistOkFalse == FALSE
exist_ok == TRUE

\* model_dir and its ancestors below "..", outermost first.
DirChain == <<"../public", "../public/models", model_dir>>

Paths == {DirChain[i] : i \in 1..Len(DirChain)} \cup {tfjs_file, save_path, data_file}

\* ------------------------------------------------------------------- state
VARIABLES
    pc,         \* the statement the process is at, or "done" / "failed"
    exc,        \* the exception that ended the process, if any
    trace,      \* the statements completed by this process, in order
    data,       \* the NpzFile returned by np.load
    X,          \* the array data["X"] (its shape)
    y,          \* the array data["y"] (its labels)
    model,      \* the keras model
    fitargs,    \* the arguments of the model.fit call
    fs,         \* the kind of every path: "none", "dir" or "file"
    kerasFile,  \* the content of trend_model.keras
    written,    \* the paths this process created or wrote
    stdout,     \* the lines this process printed
    prev        \* what the previous process left behind

vars == <<pc, exc, trace, data, X, y, model, fitargs, fs, kerasFile, written,
          stdout, prev>>

\* ----------------------------------------------------------------- helpers
Min(a, b) == IF a <= b THEN a ELSE b

Range(s) == {s[i] : i \in 1..Len(s)}

\* All sequences over S of length at most n.
SeqsUpTo(S, n) == UNION {[1..k -> S] : k \in 0..n}

\* ------------------------------------------------------------ the layers
Layer(type, units, kernel, padding, activation) ==
    [type |-> type, units |-> units, kernel_size |-> kernel,
     padding |-> padding, activation |-> activation]

\* The layer list with the convolutions left unpadded.
LayersValidPadding ==
    << Layer("Conv1D", 32, 3, "valid", "relu"),
       Layer("BatchNormalization", 0, 0, "", ""),
       Layer("Dropout", 0, 0, "", "rate=0.2"),
       Layer("Conv1D", 16, 3, "valid", "relu"),
       Layer("GlobalAveragePooling1D", 0, 0, "", ""),
       Layer("Dense", 16, 0, "", "relu"),
       Layer("Dense", NumClasses, 0, "", "softmax") >>

\* The layer list with the output width taken from the labels read.
LayersFromLabels ==
    << Layer("Conv1D", 32, 3, "same", "relu"),
       Layer("BatchNormalization", 0, 0, "", ""),
       Layer("Dropout", 0, 0, "", "rate=0.2"),
       Layer("Conv1D", 16, 3, "same", "relu"),
       Layer("GlobalAveragePooling1D", 0, 0, "", ""),
       Layer("Dense", 16, 0, "", "relu"),
       Layer("Dense", Len(y.labels), 0, "", "softmax") >>

\* The list given to keras.Sequential, after the InputLayer.
ModelLayers ==
    << Layer("Conv1D", 32, 3, "same", "relu"),
       Layer("BatchNormalization", 0, 0, "", ""),
       Layer("Dropout", 0, 0, "", "rate=0.2"),
       Layer("Conv1D", 16, 3, "same", "relu"),
       Layer("GlobalAveragePooling1D", 0, 0, "", ""),
       Layer("Dense", 16, 0, "", "relu"),
       Layer("Dense", NumClasses, 0, "", "softmax") >>

\* Output length of a 1-D convolution along the time axis.
ConvOutLen(len, kernel, stride, padding) ==
    IF padding = "same"
    THEN (len + stride - 1) \div stride
    ELSE IF len >= kernel THEN ((len - kernel) \div stride) + 1 ELSE 0

\* Output shape of one layer for an input of shape s (batch dimension first).
LayerOutShape(l, s) ==
    CASE l.type = "Conv1D" ->
            <<s[1], ConvOutLen(s[2], l.kernel_size, 1, l.padding), l.units>>
      [] l.type = "GlobalAveragePooling1D" -> <<s[1], s[3]>>
      [] l.type = "Dense" -> [s EXCEPT ![Len(s)] = l.units]
      [] OTHER -> s

\* The output shapes of the layers of ls, in order, for an input of shape s.
RECURSIVE ShapeTrace(_, _)
ShapeTrace(ls, s) ==
    IF ls = <<>> THEN <<>>
    ELSE LET o == LayerOutShape(Head(ls), s)
         IN  <<o>> \o ShapeTrace(Tail(ls), o)

\* The script with the model saved before it is trained.
ScriptSaveFirst ==
    <<"load", "getX", "getY", "construct", "compile", "summary",
      "makedirs", "save", "fit", "print">>
\* The script with the message printed before the model is saved.
ScriptPrintFirst ==
    <<"load", "getX", "getY", "construct", "compile", "summary",
      "fit", "makedirs", "print", "save">>
\* The statements of the script in program order.
Script ==
    <<"load", "getX", "getY", "construct", "compile", "summary",
      "fit", "makedirs", "save", "print">>

StageIndex(stage) == CHOOSE i \in 1..Len(Script) : Script[i] = stage

\* The statement after `stage`, or "done" after the last one.
NextPc(stage) ==
    IF StageIndex(stage) = Len(Script) THEN "done"
    ELSE Script[StageIndex(stage) + 1]

NoExc == [type |-> "none", at |-> "none"]
NoData == [open |-> FALSE, keys |-> {}]
NoX == [bound |-> FALSE, shape |-> <<>>]
NoY == [bound |-> FALSE, labels |-> <<>>]
NoModel ==
    [built |-> FALSE, layers |-> <<>>, input_shape |-> <<>>, optimizer |-> "",
     loss |-> "", metrics |-> <<>>, epochs |-> 0, nanLoss |-> FALSE]
NoFitArgs == [called |-> FALSE, epochs |-> 0, batch_size |-> 0,
              validation_split |-> <<0, 1>>]
NoFile == [state |-> "none", model |-> NoModel]
StaleFile == [state |-> "stale", model |-> NoModel]
NoPrev == [outcome |-> "none", rejected |-> FALSE,
           config |-> [model |-> NoModel, fitargs |-> NoFitArgs], paths |-> {}]

Line(text, shapes) == [text |-> text, shapes |-> shapes]

\* The paths that exist.
Existing(f) == {p \in Paths : f[p] # "none"}

\* ------------------------------------------------------------------ inputs
\* The shapes X is drawn from: the declared window with every sample count,
\* and with the largest count a window one step short, a window one feature
\* short, and an array of rank 2.
XShapes ==
    {<<n, WindowSize, Features>> : n \in 0..MaxN}
      \cup {<<MaxN, WindowSize - 1, Features>>,
            <<MaxN, WindowSize, Features - 1>>,
            <<MaxN, WindowSize>>}

\* The labels y is drawn from: the lowest and the highest class index and the
\* first index past them.  y has up to one entry more than X has samples.
Labels == {0, NumClasses - 1, NumClasses}
YValues == SeqsUpTo(Labels, MaxN + 1)

\* The file systems a first process can start in.  With the data file in
\* place: the first k directories of DirChain exist, or all but the last
\* exist and a file sits at model_dir, and trend_model.keras exists or not.
\* Without the data file: nothing else exists either.
InitDirs ==
    {[p \in Paths |->
        IF \E i \in 1..k : DirChain[i] = p THEN "dir" ELSE "none"] : k \in 0..Len(DirChain)}
      \cup {[p \in Paths |->
               IF p = model_dir THEN "file"
               ELSE IF \E i \in 1..Len(DirChain) : DirChain[i] = p THEN "dir"
               ELSE "none"]}
InitFs ==
    {[d EXCEPT ![save_path] = k, ![data_file] = "file"] :
        d \in InitDirs, k \in {"none", "file"}}
      \cup {[p \in Paths |-> "none"]}

Init ==
    /\ pc = Script[1]
    /\ exc = NoExc
    /\ trace = <<>>
    /\ data = NoData
    /\ X = NoX
    /\ y = NoY
    /\ model = NoModel
    /\ fitargs = NoFitArgs
    /\ fs \in InitFs
    /\ kerasFile = IF fs[save_path] = "file" THEN StaleFile ELSE NoFile
    /\ written = {}
    /\ stdout = <<>>
    /\ prev = NoPrev

\* ----------------------------------------------------------- control flow
\* An exception is raised at `stage`, swallowed, and the script goes on.
RaiseCaught(stage, e) ==
    /\ pc' = NextPc(stage)
    /\ exc' = [type |-> e, at |-> stage]
    /\ trace' = trace
    /\ UNCHANGED <<data, X, y>>

\* An exception raised at `stage` is caught nowhere: it propagates to the top
\* level and the process ends; the arrays it held are released.
Raise(stage, e) ==
    /\ pc' = "failed"
    /\ exc' = [type |-> e, at |-> stage]
    /\ trace' = trace
    /\ data' = NoData
    /\ X' = NoX
    /\ y' = NoY

\* The statement `stage` completed; control falls to the next statement.
Advance(stage) ==
    /\ pc' = NextPc(stage)
    /\ exc' = exc
    /\ trace' = Append(trace, stage)

\* ------------------------------------------------------------- statements
\* data = np.load("training_data.npz")
Load ==
    /\ pc = "load"
    /\ \/ /\ fs[data_file] # "file"
          /\ Raise("load", "FileNotFoundError")
       \/ /\ fs[data_file] = "file"
          /\ \E keys \in SUBSET {"X", "y"} : data' = [open |-> TRUE, keys |-> keys]
          /\ Advance("load")
          /\ UNCHANGED <<X, y>>
    /\ UNCHANGED <<model, fitargs, fs, kerasFile, written, stdout, prev>>

\* X = data["X"]
GetX ==
    /\ pc = "getX"
    /\ \/ /\ "X" \notin data.keys
          /\ Raise("getX", "KeyError")
       \/ /\ "X" \in data.keys
          /\ \E s \in XShapes : X' = [bound |-> TRUE, shape |-> s]
          /\ Advance("getX")
          /\ UNCHANGED <<data, y>>
    /\ UNCHANGED <<model, fitargs, fs, kerasFile, written, stdout, prev>>

\* y = data["y"]
GetY ==
    /\ pc = "getY"
    /\ \/ /\ "y" \notin data.keys
          /\ Raise("getY", "KeyError")
       \/ /\ "y" \in data.keys
          /\ \E l \in YValues : y' = [bound |-> TRUE, labels |-> l]
          /\ Advance("getY")
          /\ UNCHANGED <<data, X>>
    /\ UNCHANGED <<model, fitargs, fs, kerasFile, written, stdout, prev>>

\* model = keras.Sequential([InputLayer(input_shape=input_shape), ...])
Construct ==
    /\ pc = "construct"
    /\ model' = [NoModel EXCEPT !.built = TRUE, !.layers = ModelLayers,
                                !.input_shape = input_shape]
    /\ Advance("construct")
    /\ UNCHANGED <<data, X, y, fitargs, fs, kerasFile, written, stdout, prev>>

\* model.compile(optimizer='adam', loss='sparse_categorical_crossentropy',
\*               metrics=['accuracy'])
Compile ==
    /\ pc = "compile"
    /\ model' = [model EXCEPT !.optimizer = "adam",
                              !.loss = "sparse_categorical_crossentropy",
                              !.metrics = <<"accuracy">>]
    /\ Advance("compile")
    /\ UNCHANGED <<data, X, y, fitargs, fs, kerasFile, written, stdout, prev>>

\* The per-sample output shape of every layer, as model.summary() lists them.
SummaryShapes(m) ==
    LET t == ShapeTrace(m.layers, <<1>> \o m.input_shape)
    IN  [i \in 1..Len(t) |-> Tail(t[i])]

\* model.summary()
Summary ==
    /\ pc = "summary"
    /\ stdout' = Append(stdout, Line("summary", SummaryShapes(model)))
    /\ Advance("summary")
    /\ UNCHANGED <<data, X, y, model, fitargs, fs, kerasFile, written, prev>>

\* ------------------------------------------------------------------ fit
\* The number of samples of X: the first dimension of its shape.
NumSamples(x) == x.shape[1]

\* The index validation_split cuts the samples at:
\* floor(N * (1 - validation_split)).
SplitAt(n) == (n * (ValSplitDen - ValSplitNum)) \div ValSplitDen

\* The labels fit trains on, and the labels it validates on: y[0:split] and
\* y[split:N], sliced as the arrays are (a slice past the end is shorter).
TrainLabels(x, l) == SubSeq(l, 1, Min(Len(l), SplitAt(NumSamples(x))))
ValLabels(x, l) == SubSeq(l, SplitAt(NumSamples(x)) + 1, Min(Len(l), NumSamples(x)))

\* X is compatible with the model's input: rank 3 and window input_shape.
InputCompatible(m, x) ==
    /\ Len(x.shape) = Len(m.input_shape) + 1
    /\ Tail(x.shape) = m.input_shape

\* A label the loss has no class for.
OutOfRange(m, l) == \E i \in 1..Len(l) : l[i] \notin 0..(m.layers[Len(m.layers)].units - 1)

\* Training stops at the first epoch whose loss is not a number.
FitContinuesUnlessNaN(m, fa) == m.epochs < fa.epochs /\ ~m.nanLoss

\* fit has another epoch to run: no callback is passed, only the epoch count
\* ends the loop.
FitContinues(m, fa) == m.epochs < fa.epochs

\* model.fit(X, y, epochs=20, batch_size=32, validation_split=0.2, verbose=1):
\* the call, the validation split and the checks made before the first step.
FitStart ==
    /\ pc = "fit"
    /\ fitargs' = [called |-> TRUE, epochs |-> Epochs, batch_size |-> BatchSize,
                   validation_split |-> <<ValSplitNum, ValSplitDen>>]
    /\ LET n == NumSamples(X)
           ok == /\ SplitAt(n) # 0
                 /\ SplitAt(n) # n
                 /\ Len(TrainLabels(X, y.labels)) = SplitAt(n)
                 /\ InputCompatible(model, X)
       IN  \/ /\ ~ok
              /\ Raise("fit", "ValueError")
           \/ /\ ok
              /\ pc' = "epoch"
              /\ UNCHANGED <<exc, trace, data, X, y>>
    /\ UNCHANGED <<model, fs, kerasFile, written, stdout, prev>>

\* One epoch of the fit loop: the training steps, then the validation pass.
\* The loss kernel rejects an out-of-range label on a CPU and yields NaN for
\* it on a GPU; the validation arrays are checked when first used.
Epoch ==
    /\ pc = "epoch"
    /\ FitContinues(model, fitargs)
    /\ LET tl == TrainLabels(X, y.labels)
           vl == ValLabels(X, y.labels)
           valOk == Len(vl) = NumSamples(X) - SplitAt(NumSamples(X))
       IN  \/ /\ model.epochs = 0
              /\ OutOfRange(model, tl \o vl)
              /\ Raise("fit", "InvalidArgumentError")
              /\ UNCHANGED <<model, stdout>>
           \/ /\ model.epochs = 0
              /\ ~valOk
              /\ Raise("fit", "ValueError")
              /\ UNCHANGED <<model, stdout>>
           \/ /\ valOk
              /\ model' = [model EXCEPT !.epochs = @ + 1,
                                        !.nanLoss = OutOfRange(model, tl)]
              /\ stdout' = Append(stdout,
                                  Line("Epoch", << <<model.epochs + 1, fitargs.epochs>> >>))
              /\ UNCHANGED <<pc, exc, trace, data, X, y>>
    /\ UNCHANGED <<fitargs, fs, kerasFile, written, prev>>

\* fit returns the history.
FitReturn ==
    /\ pc = "epoch"
    /\ ~FitContinues(model, fitargs)
    /\ Advance("fit")
    /\ UNCHANGED <<data, X, y, model, fitargs, fs, kerasFile, written, stdout, prev>>

\* --------------------------------------------------------- the file system
\* os.makedirs(model_dir, exist_ok=True): the missing ancestors are created,
\* then model_dir; an existing model_dir is an error unless exist_ok and it
\* is a directory.
MakeDirs ==
    /\ pc = "makedirs"
    /\ \/ /\ fs[model_dir] # "none"
          /\ ~exist_ok \/ fs[model_dir] # "dir"
          /\ Raise("makedirs", "FileExistsError")
          /\ UNCHANGED <<fs, written>>
       \/ /\ fs[model_dir] = "none" \/ (exist_ok /\ fs[model_dir] = "dir")
          /\ LET missing == {p \in Range(DirChain) : fs[p] = "none"}
             IN  /\ fs' = [p \in Paths |-> IF p \in missing THEN "dir" ELSE fs[p]]
                 /\ written' = written \cup missing
          /\ Advance("makedirs")
          /\ UNCHANGED <<data, X, y>>
    /\ UNCHANGED <<model, fitargs, kerasFile, stdout, prev>>

\* model.save("trend_model.keras"): the file is created or overwritten with
\* the model as it is now.  A failing write can leave a partial file.
Save ==
    /\ pc = "save"
    /\ fs' = [fs EXCEPT ![save_path] = "file"]
    /\ written' = written \cup {save_path}
    /\ \/ /\ kerasFile' = IF save_path = "trend_model.keras"
                          THEN [state |-> "saved", model |-> model]
                          ELSE kerasFile
          /\ Advance("save")
          /\ UNCHANGED <<data, X, y>>
       \/ /\ kerasFile' = IF save_path = "trend_model.keras"
                          THEN [state |-> "partial", model |-> NoModel]
                          ELSE kerasFile
          /\ Raise("save", "OSError")
    /\ UNCHANGED <<model, fitargs, stdout, prev>>

\* print("Saved trend_model.keras")
PrintSaved ==
    /\ pc = "print"
    /\ stdout' = Append(stdout, Line("Saved trend_model.keras", <<>>))
    /\ Advance("print")
    /\ UNCHANGED <<data, X, y, model, fitargs, fs, kerasFile, written, prev>>

\* ------------------------------------------------------------ environment
\* A library call raises for a reason outside the data (no memory, no
\* permission, an interrupt): it has no effect and the exception propagates.
Fault ==
    /\ pc \in Range(Script) \cup {"epoch"}
    /\ Raise(IF pc = "epoch" THEN "fit" ELSE pc, "EnvError")
    /\ UNCHANGED <<model, fitargs, fs, kerasFile, written, stdout, prev>>

\* The configuration this process built.
Config == [model |-> [model EXCEPT !.epochs = 0, !.nanLoss = FALSE],
           fitargs |-> fitargs]

\* The process has ended; the script is started again.  Its memory is gone,
\* the file system stays.
Exit ==
    /\ pc \in {"done", "failed"}
    /\ prev' = [outcome |-> pc,
                rejected |-> exc.type \in {"ValueError", "InvalidArgumentError"},
                config |-> Config, paths |-> Existing(fs)]
    /\ pc' = Script[1]
    /\ exc' = NoExc
    /\ trace' = <<>>
    /\ data' = NoData
    /\ X' = NoX
    /\ y' = NoY
    /\ model' = NoModel
    /\ fitargs' = NoFitArgs
    /\ written' = {}
    /\ stdout' = <<>>
    /\ UNCHANGED <<fs, kerasFile>>

\* A statement of the script, or the exception that ends it.
Step ==
    \/ Load
    \/ GetX
    \/ GetY
    \/ Construct
    \/ Compile
    \/ Summary
    \/ FitStart
    \/ Epoch
    \/ FitReturn
    \/ MakeDirs
    \/ Save
    \/ PrintSaved
    \/ Fault

Next == Step \/ Exit

Spec == Init /\ [][Next]_vars

\* ============================================================== properties
\* The statements in the order the source lists them, and the stage of the
\* pipeline each belongs to: 1 load dataset, 2 construct model, 3 compile,
\* 4 fit, 5 save.
StatementOrder ==
    <<"load", "getX", "getY", "construct", "compile", "summary",
      "fit", "makedirs", "save", "print">>
StageRank(st) ==
    CASE st \in {"load", "getX", "getY"} -> 1
      [] st = "construct" -> 2
      [] st \in {"compile", "summary"} -> 3
      [] st \in {"fit", "epoch"} -> 4
      [] st \in {"makedirs", "save", "print"} -> 5
Running == pc \notin {"done", "failed"}
Printed(text) == \E i \in 1..Len(stdout) : stdout[i].text = text

\* C1: the stages run in the fixed order load dataset -> construct model ->
\* compile -> fit -> save: the statements completed so far are exactly an
\* initial part of the source order (none skipped, none twice, none early),
\* the process is at the statement that follows them, inside fit while its
\* epochs run, and save is reached or completed only after fit has returned.
C1_StagesInOrder ==
    /\ Len(trace) <= Len(StatementOrder)
    /\ trace = SubSeq(StatementOrder, 1, Len(trace))
    /\ Running =>
          /\ Len(trace) < Len(StatementOrder)
          /\ pc = "epoch" => StatementOrder[Len(trace) + 1] = "fit"
          /\ pc # "epoch" => pc = StatementOrder[Len(trace) + 1]
          /\ \A i \in 1..Len(trace) : StageRank(trace[i]) <= StageRank(pc)
    /\ (pc = "save" \/ "save" \in Range(trace)) =>
          "fit" \in Range(trace) /\ model.epochs = 20
    /\ pc = "done" => trace = StatementOrder

C1_Witness == pc = "done" /\ "save" \in Range(trace) /\ "fit" \in Range(trace)

\* C2: when the script has run to completion, trend_model.keras exists and
\* holds the model as it is after the last of the 20 epochs; and the line
\* "Saved trend_model.keras" is on stdout only when the save has returned and
\* the file holds the model.
C2_SavedAfterTraining ==
    /\ pc = "done" =>
          /\ exc = NoExc
          /\ fs["trend_model.keras"] = "file"
          /\ kerasFile = [state |-> "saved", model |-> model]
          /\ kerasFile.model.epochs = 20
          /\ kerasFile.model.layers # <<>>
    /\ Printed("Saved trend_model.keras") =>
          /\ "save" \in Range(trace)
          /\ fs["trend_model.keras"] = "file"
          /\ kerasFile = [state |-> "saved", model |-> model]

\* A completed run that overwrote a file that was there before.
C2_Witness ==
    /\ pc = "done"
    /\ Printed("Saved trend_model.keras")
    /\ kerasFile.model.epochs = 20
    /\ prev.outcome = "none"

\* C3: no exception is caught: once a statement has raised, the process has
\* stopped there, exactly the statements before it have completed and none
\* after it, the success line is not printed, and when the failing statement
\* comes before model.save this process wrote no trend_model.keras (a file
\* of that name is then one an earlier process left).
C3_ExceptionsPropagate ==
    /\ pc = "failed" <=> exc.type # "none"
    /\ exc.type # "none" =>
          /\ exc.at \in Range(StatementOrder)
          /\ \A i \in 1..Len(StatementOrder) :
                StatementOrder[i] = exc.at =>
                   trace = SubSeq(StatementOrder, 1, i - 1)
          /\ exc.at \in {"load", "getX", "getY", "construct", "compile", "summary",
                        "fit", "makedirs"} =>
                /\ "trend_model.keras" \notin written
                /\ prev.outcome = "none" => kerasFile.state \in {"none", "stale"}
          /\ ~Printed("Saved trend_model.keras")

\* fit rejected the data: nothing of the save stage happened.
C3_Witness ==
    /\ pc = "failed"
    /\ exc = [type |-> "ValueError", at |-> "fit"]
    /\ Len(trace) = 6
    /\ written = {}

\* C4: the output layer has 3 units and every label the script has trained
\* on is one of the class indices 0, 1, 2.
C4_LabelsAreClassIndices ==
    /\ model.built => model.layers[Len(model.layers)].units = 3
    /\ model.epochs >= 1 =>
          \A i \in 1..Len(TrainLabels(X, y.labels)) :
             TrainLabels(X, y.labels)[i] \in {0, 1, 2}

\* C5: when fit has trained on the data and returned, X has shape (N, 6, 8)
\* and y has the same number N of entries as X.
C5_DataMatchesWindow ==
    "fit" \in Range(trace) =>
       /\ Len(X.shape) = 3
       /\ X.shape[2] = 6
       /\ X.shape[3] = 8
       /\ Len(y.labels) = X.shape[1]

\* The progress lines printed, the bound on the epochs, the measure every
\* step lowers, and what a step of fit may do.
C6_EpochLines == Cardinality({i \in 1..Len(stdout) : stdout[i].text = "Epoch"})
C6_EpochsBounded ==
    /\ model.epochs <= 20
    /\ "fit" \in Range(trace) => model.epochs = 20 /\ C6_EpochLines = 20
    /\ pc = "epoch" => C6_EpochLines = model.epochs
C6_Measure ==
    IF ~Running THEN 0
    ELSE 1 + (10 - Len(trace)) * (20 + 2) - model.epochs
           - (IF pc = "epoch" THEN 1 ELSE 0)
C6_FitStep ==
    /\ Running => C6_Measure' < C6_Measure
    /\ (pc = "epoch" /\ pc' \notin {"epoch", "failed"}) =>
          pc' = "makedirs" /\ model'.epochs = 20

\* C6: fit runs exactly 20 epochs and the script then ends.  It never runs
\* more than 20, it returns only when 20 have run, each epoch printed its
\* progress line once, and control goes from fit to the save stage.  The
\* process terminates: inside fit there is always a next epoch or the
\* return, and every step of a running process lowers a measure that is
\* bounded below (the statements left, each weighed above the epochs of fit,
\* less the epochs run).
C6_FitTerminates ==
    /\ [](C6_EpochsBounded /\ C6_Measure >= 0)
    /\ [](pc = "epoch" => ENABLED (Epoch \/ FitReturn))
    /\ [][C6_FitStep]_vars

C6_Witness == pc = "makedirs" /\ model.epochs = 20 /\ exc = NoExc

\* The layer types and widths the source lists, and those of a model.
ExpectedTopology ==
    << <<"Conv1D", 32>>, <<"BatchNormalization", 0>>, <<"Dropout", 0>>,
       <<"Conv1D", 16>>, <<"GlobalAveragePooling1D", 0>>, <<"Dense", 16>>,
       <<"Dense", 3>> >>
Topology(m) == [i \in 1..Len(m.layers) |-> <<m.layers[i].type, m.layers[i].units>>]

\* C7: the topology, the optimizer, the loss, the epoch count and the batch
\* size are the same in every run, whatever training_data.npz holds: each is
\* the fixed value of the source, and equals what the previous run used.
C7_ConfigIndependentOfData ==
    /\ model.built =>
          /\ Topology(model) = ExpectedTopology
          /\ model.layers[3].activation = "rate=0.2"
          /\ prev.config.model.built => prev.config.model.layers = model.layers
    /\ model.optimizer # "" =>
          /\ model.optimizer = "adam"
          /\ model.loss = "sparse_categorical_crossentropy"
          /\ prev.config.model.optimizer # "" =>
                /\ prev.config.model.optimizer = model.optimizer
                /\ prev.config.model.loss = model.loss
    /\ fitargs.called =>
          /\ fitargs.epochs = 20
          /\ fitargs.batch_size = 32
          /\ prev.config.fitargs.called => prev.config.fitargs = fitargs

\* Two runs on different contents: the previous run's data was rejected by
\* fit, this run's data was trained on to the end.
C7_Witness ==
    /\ prev.rejected
    /\ prev.config.fitargs.called
    /\ pc = "done"
    /\ prev.config = Config

\* The output shapes of the seven layers for a batch of b windows.
ExpectedShapes(b) ==
    << <<b, 6, 32>>, <<b, 6, 32>>, <<b, 6, 32>>, <<b, 6, 16>>,
       <<b, 16>>, <<b, 16>>, <<b, 3>> >>

\* C8: for a batch of B windows of shape (6, 8) the layers give (B, 6, 32),
\* (B, 6, 32), (B, 6, 32), (B, 6, 16), (B, 16), (B, 16), (B, 3); the summary
\* lists the same shapes without the batch dimension.
C8_ShapePropagation ==
    /\ model.built =>
          \A b \in 1..MaxBatch :
             ShapeTrace(model.layers, <<b>> \o model.input_shape) = ExpectedShapes(b)
    /\ \A i \in 1..Len(stdout) :
          stdout[i].text = "summary" =>
             stdout[i].shapes =
                << <<6, 32>>, <<6, 32>>, <<6, 32>>, <<6, 16>>, <<16>>, <<16>>, <<3>> >>

C8_Witness == pc = "fit" /\ model.built /\ Printed("summary")

\* The paths the script may create or write, and what one step may change.
AllowedWrites ==
    {"../public", "../public/models", "../public/models/trend-cnn", "trend_model.keras"}
C9_FrameStep ==
    /\ written' \subseteq AllowedWrites
    /\ \A p \in Paths : fs'[p] # fs[p] => p \in AllowedWrites /\ p \in written'
    /\ kerasFile' # kerasFile => "trend_model.keras" \in written'
    /\ fs'["training_data.npz"] = fs["training_data.npz"]
    /\ fs'["../public/models/trend-cnn/model.json"] = "none"
    /\ \A p \in Paths : fs[p] # "none" => fs'[p] = fs[p]

\* C9: a step of the script creates or writes nothing but the directories
\* ../public, ../public/models, ../public/models/trend-cnn and the file
\* trend_model.keras; training_data.npz is left as it is and no file appears
\* inside ../public/models/trend-cnn.
C9_Frame == [][C9_FrameStep]_vars

\* Started with nothing but the data file: all four paths were created.
C9_Witness ==
    /\ pc = "done"
    /\ written = AllowedWrites
    /\ fs["training_data.npz"] = "file"

\* C10: a run started after a successful run does not fail at makedirs or
\* save because the directory or the file exists, and leaves the set of
\* existing paths as the previous run left it.
C10_RerunIdempotent ==
    prev.outcome = "done" =>
       /\ exc.type # "FileExistsError"
       /\ Existing(fs) = prev.paths
       /\ pc = "done" => /\ fs["../public/models/trend-cnn"] = "dir"
                         /\ fs["trend_model.keras"] = "file"

C10_Witness ==
    /\ prev.outcome = "done"
    /\ pc = "done"
    /\ written = {"trend_model.keras"}

====
